---- MODULE Spec2Model ----
(***************************************************************************)
(* Model of src/multi_machine_uptime_simulator.py: the Monte Carlo engine   *)
(* MultiMachineLineSimulator.run_monte_carlo and the per-station renewal    *)
(* loop _simulate_station_units.                                            *)
(*                                                                          *)
(* Times are integer seconds.  A random generator is its seed and the       *)
(* number of samples it has produced; the stream of a seed is a fixed       *)
(* sequence of standard exponential samples (in quarters), which            *)
(* rng.exponential(scale) multiplies by its scale.                          *)
(*                                                                          *)
(* Every variable is a function of the simulation (one run_monte_carlo      *)
(* call on one simulator object); Spec runs one simulation, SpecPair two    *)
(* independent ones whose steps interleave.                                 *)
(***************************************************************************)
EXTENDS Integers, Sequences, FiniteSets, TLC

VARIABLES
    self,   \* self[s]: the simulator object (stations, horizon_hours, horizon_sec)
    mc,     \* mc[s]: arguments and locals of run_monte_carlo
    st,     \* st[s]: locals of _simulate_station_units
    rng,    \* rng[g]: generator g, its seed and the number of samples drawn
    pc,     \* pc[s]: the position of simulation s in the code
    out,    \* out[s]: what the call returned or raised
    hist    \* hist[s]: record of the calls, draws and trials made so far

vars == <<self, mc, st, rng, pc, out, hist>>

----------------------------------------------------------------------------
(* Bounds of the model *)

MaxRuns == 2            \* trial counts range over -1 .. MaxRuns
MaxHorizonHours == 1    \* horizons range over -1 .. MaxHorizonHours hours
StreamPeriod == 3       \* a seed fixes this many samples, then the stream repeats
MaxDraws == 16          \* no machine is followed beyond this many draws

(* Program constant: seconds per hour (horizon_hours * 3600.0) *)
SecPerHour == 3600

----------------------------------------------------------------------------
(* Station configurations (StationConfig) *)

StationConfig(n, ct, mtbf, mttr, pu) ==
    [name |-> n, mean_cycle_time_sec |-> ct, mtbf_hours |-> mtbf,
     mttr_hours |-> mttr, parallel_units |-> pu]

Winding   == StationConfig("Winding", 1000, 1, 1, 2)
Assembly  == StationConfig("Assembly", 700, 2, 1, 1)
Idle      == StationConfig("Idle", 0, 1, 1, 1)
Twin      == StationConfig("Winding", 0, 2, 1, 1)      \* shares Winding's name
NoUnits   == StationConfig("NoUnits", 1000, 1, 1, 0)   \* parallel_units < 1
NegCycle  == StationConfig("NegCycle", -1000, 1, 1, 1) \* negative cycle time
NoRepair  == StationConfig("NoRepair", 700, 1, 0, 1)   \* mttr_hours = 0
Stuck     == StationConfig("Stuck", 700, 0, 0, 1)      \* mtbf_hours = mttr_hours = 0
NegMtbf   == StationConfig("NegMtbf", 700, -1, 1, 1)   \* mtbf_hours < 0
NegMttr   == StationConfig("NegMttr", 700, 1, -1, 1)   \* mttr_hours < 0

Lines ==
    { <<>>,
      <<Winding>>, <<Assembly>>, <<Idle>>,
      <<Winding, Assembly>>, <<Assembly, Winding>>, <<Assembly, Idle>>,
      <<Winding, Twin>>,
      <<NoUnits, Assembly>>, <<Assembly, NegCycle>>, <<NoRepair>>,
      <<Stuck>>, <<NegMtbf>>, <<Assembly, NegMttr>> }

PairLines == { <<Winding>>, <<Assembly, Idle>> }

FairLines ==
    { <<Winding>>, <<Assembly, Winding>>, <<Assembly, Idle>>, <<NoRepair>>,
      <<Stuck>> }

Max(a, b) == IF a >= b THEN a ELSE b

RECURSIVE Pow(_, _)
Pow(b, n) == IF n = 0 THEN 1 ELSE b * Pow(b, n - 1)

StdSamples == <<1, 2, 5>>   \* standard exponential samples, in quarters

Seeds == 0 .. (Pow(Len(StdSamples), StreamPeriod) - 1)

PairSeeds == {6, 16}

----------------------------------------------------------------------------
(* Pure helpers *)

(* self.horizon_sec = horizon_hours * 3600.0 *)
HorizonSec(hours) == hours * SecPerHour

(* mtbf_sec = cfg.mtbf_hours * 3600.0, mttr_sec = cfg.mttr_hours * 3600.0 *)
ScaleSec(hours) == hours * SecPerHour

(* np.random.default_rng(seed): a fresh generator, no sample drawn yet *)
DefaultRng(seed) == [seed |-> seed, pos |-> 0]

(* The standard exponential sample the generator produces next: digit        *)
(* (pos mod StreamPeriod) of the seed written in base Len(StdSamples).       *)
StdSample(g) ==
    StdSamples[((g.seed \div Pow(Len(StdSamples), g.pos % StreamPeriod))
                % Len(StdSamples)) + 1]

(* rng.exponential(scale): scale times the standard sample *)
Exponential(g, scale) == (scale * StdSample(g)) \div 4

(* mutant of Advance: the draw leaves the generator where it was *)
AdvanceStuck(g) == g

(* the generator after one draw *)
Advance(g) == [g EXCEPT !.pos = g.pos + 1]

(* mutant of RngOf: one process-wide generator shared by every simulation *)
RngShared(s) == 1

(* the generator a simulation draws from: the one its own call created *)
RngOf(s) == s

(* mutant of RangeHas: the loop runs once more (counter values 0 .. n) *)
RangeHasInclusive(i, n) == i <= n

(* for _ in range(n): the body runs for counter values 0 .. n-1 *)
RangeHas(i, n) == i < n

(* mutant of InHorizon: the loop is entered with the clock at the horizon *)
InHorizonInclusive(t, horizon) == t <= horizon

(* while t < horizon_sec *)
InHorizon(t, horizon) == t < horizon

(* mutant of HorizonReached: the break after the up interval is missing *)
HorizonNeverReached(t, horizon) == FALSE

(* if t >= horizon_sec: break *)
HorizonReached(t, horizon) == t >= horizon

(* mutant of Truncate: the interval is cut to the horizon, not to what is  *)
(* left of it                                                               *)
TruncateToHorizon(t, d, horizon) == IF t + d > horizon THEN horizon ELSE d

(* mutant of Truncate: the interval is not cut at the horizon *)
TruncateNever(t, d, horizon) == d

(* if t + d > horizon_sec: d = horizon_sec - t *)
Truncate(t, d, horizon) == IF t + d > horizon THEN horizon - t ELSE d

(* mutant of PossibleUnits: a started cycle counts as a unit *)
PossibleUnitsRounded(up_time, cycle) ==
    IF cycle > 0 THEN (up_time + cycle - 1) \div cycle ELSE 0

(* possible_units: int(up_time // mean_cycle_time_sec) when the cycle time   *)
(* is positive, else 0                                                       *)
PossibleUnits(up_time, cycle) == IF cycle > 0 THEN up_time \div cycle ELSE 0

(* mutant of ProducedTime: the whole up interval counts as busy *)
ProducedTimeWhole(up_time, cycle) == up_time

(* produced_time = possible_units * mean_cycle_time_sec, else 0.0 *)
ProducedTime(up_time, cycle) ==
    IF cycle > 0 THEN PossibleUnits(up_time, cycle) * cycle ELSE 0

(* {cfg.name: 0 for cfg in stations} *)
ZeroByName(stations) ==
    [n \in {stations[i].name : i \in 1 .. Len(stations)} |-> 0]

(* units_per_station = [r.total_units for r in results] *)
UnitsPerStation(results) == [i \in 1 .. Len(results) |-> results[i].total_units]

(* min(units_per_station), for a non-empty list *)
Min(units) ==
    CHOOSE m \in {units[i] : i \in 1 .. Len(units)} :
        \A i \in 1 .. Len(units) : m <= units[i]

(* mutant of CreditBottlenecks: only the first station at the minimum is   *)
(* credited                                                                 *)
RECURSIVE CreditFirst(_, _, _)
CreditFirst(counts, results, min_units) ==
    IF results = <<>> THEN counts
    ELSE IF Head(results).total_units = min_units
         THEN [counts EXCEPT ![Head(results).name] = @ + 1]
         ELSE CreditFirst(counts, Tail(results), min_units)

(* mutant of CreditBottlenecks: a station is credited when its units are    *)
(* below the minimum                                                        *)
RECURSIVE CreditBelow(_, _, _)
CreditBelow(counts, results, min_units) ==
    IF results = <<>> THEN counts
    ELSE LET r == Head(results)
             c == IF r.total_units < min_units
                  THEN [counts EXCEPT ![r.name] = @ + 1]
                  ELSE counts
         IN  CreditBelow(c, Tail(results), min_units)

(* for r in results: if r.total_units == min_units: counts[r.name] += 1 *)
RECURSIVE CreditBottlenecks(_, _, _)
CreditBottlenecks(counts, results, min_units) ==
    IF results = <<>> THEN counts
    ELSE LET r == Head(results)
             c == IF r.total_units = min_units
                  THEN [counts EXCEPT ![r.name] = @ + 1]
                  ELSE counts
         IN  CreditBottlenecks(c, Tail(results), min_units)

(* mutant of AddTo: the value is added under every name *)
AddToEvery(dict, name, value) == [n \in DOMAIN dict |-> dict[n] + value]

(* dict[name] += value *)
AddTo(dict, name, value) == [dict EXCEPT ![name] = @ + value]

----------------------------------------------------------------------------
(* Initial states: the simulators constructed, run_monte_carlo about to run *)

NoSummary == [kind |-> "none"]

Frame0(runs, seed) ==
    [runs |-> runs, seed |-> seed,
     line_throughputs |-> <<>>,
     bottleneck_counts |-> <<>>,
     station_busy_time |-> <<>>,
     station_downtime |-> <<>>,
     station_units |-> <<>>,
     run_i |-> 0, cfg_i |-> 1, results |-> <<>>]

Station0 ==
    [total_busy |-> 0, total_down |-> 0, total_units |-> 0, unit_i |-> 0,
     t |-> 0, busy |-> 0, down |-> 0, units |-> 0]

Hist0 == [calls |-> 0, draws |-> <<>>, trials |-> <<>>]

(* MultiMachineLineSimulator(stations, horizon_hours) *)
Simulator(stations, hours) ==
    [stations |-> stations, horizon_hours |-> hours,
     horizon_sec |-> HorizonSec(hours)]

InitOf(sims, lines, horizons, runs, seeds) ==
    /\ self \in [sims -> {Simulator(l, h) : l \in lines, h \in horizons}]
    /\ mc \in [sims -> {Frame0(r, sd) : r \in runs, sd \in seeds}]
    /\ st = [s \in sims |-> Station0]
    /\ rng = [s \in sims |-> DefaultRng(0)]
    /\ pc = [s \in sims |-> "call"]
    /\ out = [s \in sims |-> NoSummary]
    /\ hist = [s \in sims |-> Hist0]

Init == InitOf({1}, Lines, -1 .. MaxHorizonHours, -1 .. MaxRuns, Seeds)

InitFair == InitOf({1}, FairLines, 0 .. MaxHorizonHours, 1 .. MaxRuns, Seeds)

InitPair == InitOf({1, 2}, PairLines, {MaxHorizonHours}, {1, 2}, PairSeeds)

----------------------------------------------------------------------------
(* run_monte_carlo *)

Sims == {1, 2}

(* simulation s exists and is at position l *)
At(s, l) == s \in DOMAIN pc /\ pc[s] = l

Cfg(s) == self[s].stations[mc[s].cfg_i]

(* run_monte_carlo(runs, seed): the generator and the running totals *)
RunMonteCarlo(s) ==
    /\ At(s, "call")
    /\ rng' = [rng EXCEPT ![RngOf(s)] = DefaultRng(mc[s].seed)]
    /\ mc' = [mc EXCEPT ![s].line_throughputs = <<>>,
                        ![s].bottleneck_counts = ZeroByName(self[s].stations),
                        ![s].station_busy_time = ZeroByName(self[s].stations),
                        ![s].station_downtime = ZeroByName(self[s].stations),
                        ![s].station_units = ZeroByName(self[s].stations),
                        ![s].run_i = 0]
    /\ pc' = [pc EXCEPT ![s] = "for_runs"]
    /\ UNCHANGED <<self, st, out, hist>>

(* for _ in range(runs): results = []; for cfg in self.stations *)
NextTrial(s) ==
    /\ At(s, "for_runs")
    /\ RangeHas(mc[s].run_i, mc[s].runs)
    /\ mc' = [mc EXCEPT ![s].results = <<>>, ![s].cfg_i = 1]
    /\ pc' = [pc EXCEPT ![s] = "for_cfg"]
    /\ UNCHANGED <<self, st, rng, out, hist>>

(* the loop over runs is over: summary = {...}; return summary *)
Return(s) ==
    /\ At(s, "for_runs")
    /\ ~RangeHas(mc[s].run_i, mc[s].runs)
    /\ out' = [out EXCEPT ![s] =
                 [kind |-> "summary",
                  line_throughputs |-> mc[s].line_throughputs,
                  bottleneck_counts |-> mc[s].bottleneck_counts,
                  station_busy_time |-> mc[s].station_busy_time,
                  station_downtime |-> mc[s].station_downtime,
                  station_units |-> mc[s].station_units]]
    /\ pc' = [pc EXCEPT ![s] = "done"]
    /\ UNCHANGED <<self, mc, st, rng, hist>>

(* res = self._simulate_station_units(cfg, rng): entry, the totals zeroed *)
SimulateStation(s) ==
    /\ At(s, "for_cfg")
    /\ mc[s].cfg_i <= Len(self[s].stations)
    /\ st' = [st EXCEPT ![s] = Station0]
    /\ hist' = [hist EXCEPT ![s].calls = @ + 1]
    /\ pc' = [pc EXCEPT ![s] = "for_units"]
    /\ UNCHANGED <<self, mc, rng, out>>

(* for _ in range(cfg.parallel_units): t = 0.0; busy, down, units = 0 *)
StartMachine(s) ==
    /\ At(s, "for_units")
    /\ RangeHas(st[s].unit_i, Cfg(s).parallel_units)
    /\ st' = [st EXCEPT ![s].t = 0, ![s].busy = 0, ![s].down = 0,
                        ![s].units = 0]
    /\ pc' = [pc EXCEPT ![s] = "while"]
    /\ UNCHANGED <<self, mc, rng, out, hist>>

(* one entry of hist[s].draws: the sample drawn at generator position pos    *)
(* for machine unit of station cfg in trial run, with the clock at t, and    *)
(* the part of it the horizon left                                            *)
Draw(s, kind, value, used) ==
    [kind |-> kind, run |-> mc[s].run_i, cfg |-> mc[s].cfg_i,
     unit |-> st[s].unit_i, pos |-> rng[RngOf(s)].pos, t |-> st[s].t,
     value |-> value, used |-> used]

(* the number of draws made so far for the machine being simulated *)
DrawsOfMachine(s) ==
    Cardinality({i \in 1 .. Len(hist[s].draws) :
                   /\ hist[s].draws[i].run = mc[s].run_i
                   /\ hist[s].draws[i].cfg = mc[s].cfg_i
                   /\ hist[s].draws[i].unit = st[s].unit_i})

Raise(s, what) ==
    /\ out' = [out EXCEPT ![s] = [kind |-> "raised", error |-> what]]
    /\ pc' = [pc EXCEPT ![s] = "raised"]

(* while t < horizon_sec: the uptime period, up to "if t >= horizon: break" *)
UpInterval(s) ==
    /\ At(s, "while")
    /\ InHorizon(st[s].t, self[s].horizon_sec)
    /\ DrawsOfMachine(s) < MaxDraws
    /\ LET g == rng[RngOf(s)]
           mtbf_sec == ScaleSec(Cfg(s).mtbf_hours)
       IN  IF mtbf_sec < 0
           THEN /\ Raise(s, "ValueError")
                /\ UNCHANGED <<self, mc, st, rng, hist>>
           ELSE LET drawn == Exponential(g, mtbf_sec)
                    up_time == Truncate(st[s].t, drawn, self[s].horizon_sec)
                    cycle == Cfg(s).mean_cycle_time_sec
                    t1 == st[s].t + up_time
                IN  /\ rng' = [rng EXCEPT ![RngOf(s)] = Advance(g)]
                    /\ st' = [st EXCEPT
                                ![s].busy = @ + ProducedTime(up_time, cycle),
                                ![s].t = t1,
                                ![s].units = @ + PossibleUnits(up_time, cycle)]
                    /\ hist' = [hist EXCEPT ![s].draws =
                                  Append(@, Draw(s, "up", drawn, up_time))]
                    /\ pc' = [pc EXCEPT ![s] =
                                IF HorizonReached(t1, self[s].horizon_sec)
                                THEN "accumulate" ELSE "repair"]
                    /\ UNCHANGED <<self, mc, out>>

(* failure + repair: the repair draw, truncated, added to down and to t *)
Repair(s) ==
    /\ At(s, "repair")
    /\ DrawsOfMachine(s) < MaxDraws
    /\ LET g == rng[RngOf(s)]
           mttr_sec == ScaleSec(Cfg(s).mttr_hours)
       IN  IF mttr_sec < 0
           THEN /\ Raise(s, "ValueError")
                /\ UNCHANGED <<self, mc, st, rng, hist>>
           ELSE LET drawn == Exponential(g, mttr_sec)
                    repair_time == Truncate(st[s].t, drawn, self[s].horizon_sec)
                IN  /\ rng' = [rng EXCEPT ![RngOf(s)] = Advance(g)]
                    /\ st' = [st EXCEPT ![s].down = @ + repair_time,
                                        ![s].t = @ + repair_time]
                    /\ hist' = [hist EXCEPT ![s].draws =
                                  Append(@, Draw(s, "down", drawn, repair_time))]
                    /\ pc' = [pc EXCEPT ![s] = "while"]
                    /\ UNCHANGED <<self, mc, out>>

(* the while condition t < horizon_sec is false *)
ExitWhile(s) ==
    /\ At(s, "while")
    /\ ~InHorizon(st[s].t, self[s].horizon_sec)
    /\ pc' = [pc EXCEPT ![s] = "accumulate"]
    /\ UNCHANGED <<self, mc, st, rng, out, hist>>

(* total_busy += busy; total_down += down; total_units += units *)
Accumulate(s) ==
    /\ At(s, "accumulate")
    /\ st' = [st EXCEPT ![s].total_busy = @ + st[s].busy,
                        ![s].total_down = @ + st[s].down,
                        ![s].total_units = @ + st[s].units,
                        ![s].unit_i = @ + 1]
    /\ pc' = [pc EXCEPT ![s] = "for_units"]
    /\ UNCHANGED <<self, mc, rng, out, hist>>

(* StationResult(name, total_busy_time, total_downtime, total_units) *)
StationResult(name, busy, down, units) ==
    [name |-> name, total_busy_time |-> busy, total_downtime |-> down,
     total_units |-> units]

(* return StationResult(...); results.append(res); the three totals += res *)
ReturnStation(s) ==
    /\ At(s, "for_units")
    /\ ~RangeHas(st[s].unit_i, Cfg(s).parallel_units)
    /\ LET res == StationResult(Cfg(s).name, st[s].total_busy,
                                st[s].total_down, st[s].total_units)
       IN  mc' = [mc EXCEPT
                    ![s].results = Append(@, res),
                    ![s].station_busy_time =
                        AddTo(@, res.name, res.total_busy_time),
                    ![s].station_downtime =
                        AddTo(@, res.name, res.total_downtime),
                    ![s].station_units = AddTo(@, res.name, res.total_units),
                    ![s].cfg_i = @ + 1]
    /\ pc' = [pc EXCEPT ![s] = "for_cfg"]
    /\ UNCHANGED <<self, st, rng, out, hist>>

(* line_throughput = min(units_per_station), appended; every station at the *)
(* minimum is credited; min() of an empty list raises ValueError            *)
Reduce(s) ==
    /\ At(s, "for_cfg")
    /\ mc[s].cfg_i > Len(self[s].stations)
    /\ IF mc[s].results = <<>>
       THEN /\ Raise(s, "ValueError")
            /\ UNCHANGED <<self, mc, st, rng, hist>>
       ELSE LET min_units == Min(UnitsPerStation(mc[s].results))
            IN  /\ mc' = [mc EXCEPT
                            ![s].line_throughputs = Append(@, min_units),
                            ![s].bottleneck_counts =
                                CreditBottlenecks(@, mc[s].results, min_units),
                            ![s].run_i = @ + 1]
                /\ hist' = [hist EXCEPT ![s].trials = Append(@, mc[s].results)]
                /\ pc' = [pc EXCEPT ![s] = "for_runs"]
                /\ UNCHANGED <<self, st, rng, out>>

Next ==
    \E s \in Sims :
        \/ RunMonteCarlo(s)
        \/ NextTrial(s)
        \/ Return(s)
        \/ SimulateStation(s)
        \/ StartMachine(s)
        \/ UpInterval(s)
        \/ Repair(s)
        \/ ExitWhile(s)
        \/ Accumulate(s)
        \/ ReturnStation(s)
        \/ Reduce(s)

Spec == Init /\ [][Next]_vars

SpecPair == InitPair /\ [][Next]_vars

(* run_monte_carlo is sequential code that runs on until it returns or      *)
(* raises: a step that can be taken is taken.                               *)
SpecFair == InitFair /\ [][Next]_vars /\ WF_vars(Next)

----------------------------------------------------------------------------
(* Vocabulary of the properties *)

Running == DOMAIN pc

Stations(s) == self[s].stations

StationIds(s) == 1 .. Len(Stations(s))

ValidStation(c) ==
    /\ c.mtbf_hours > 0
    /\ c.mttr_hours > 0
    /\ c.mean_cycle_time_sec >= 0
    /\ c.parallel_units >= 1

ValidLine(s) == \A k \in StationIds(s) : ValidStation(Stations(s)[k])

UniqueNames(s) ==
    \A j, k \in StationIds(s) :
        Stations(s)[j].name = Stations(s)[k].name => j = k

ValidHorizon(s) == self[s].horizon_hours >= 0

Returned(s) == out[s].kind = "summary"

(* the result lists made so far: the completed trials, then the current one *)
ResultLists(s) == hist[s].trials \o <<mc[s].results>>

(* station k's unit count is the least of the result list rs *)
AtMinimum(rs, k) == \A j \in 1 .. Len(rs) : rs[k].total_units <= rs[j].total_units

StrictMinimum(rs, k) ==
    \A j \in 1 .. Len(rs) : j # k => rs[k].total_units < rs[j].total_units

RECURSIVE SumUsed(_)
SumUsed(draws) ==
    IF draws = <<>> THEN 0 ELSE Head(draws).used + SumUsed(Tail(draws))

(* the draws made so far for the machine being simulated *)
IsCurrent(s, d) ==
    /\ d.run = mc[s].run_i
    /\ d.cfg = mc[s].cfg_i
    /\ d.unit = st[s].unit_i

MachineDraws(s, kind) ==
    SelectSeq(hist[s].draws, LAMBDA d : IsCurrent(s, d) /\ d.kind = kind)

InMachine(s) == pc[s] \in {"while", "repair", "accumulate"}

----------------------------------------------------------------------------
(* C1: every StationResult returned by _simulate_station_units has           *)
(* total_busy_time + total_downtime <= horizon_sec.  Stated here for the     *)
(* configurations the claim names (horizon >= 0, parallel_units >= 1); it    *)
(* fails for a station with two machines, whose result sums both machines.   *)
C1_BusyPlusDownWithinHorizon ==
    \A s \in Running :
        \A i \in 1 .. Len(ResultLists(s)) :
            \A k \in 1 .. Len(ResultLists(s)[i]) :
                (/\ self[s].horizon_sec >= 0
                 /\ Stations(s)[k].parallel_units >= 1)
                => ResultLists(s)[i][k].total_busy_time
                     + ResultLists(s)[i][k].total_downtime
                   <= self[s].horizon_sec

(* C1 as amended: every StationResult has total_busy_time + total_downtime   *)
(* <= parallel_units * max(horizon_sec, 0), each machine contributing at     *)
(* most the horizon (nothing at all when the horizon or the number of        *)
(* machines is not positive).                                                *)
C1_BusyPlusDownWithinMachineHorizons ==
    \A s \in Running :
        \A i \in 1 .. Len(ResultLists(s)) :
            \A k \in 1 .. Len(ResultLists(s)[i]) :
                LET r == ResultLists(s)[i][k]
                IN  /\ r.total_busy_time >= 0
                    /\ r.total_downtime >= 0
                    /\ r.total_busy_time + r.total_downtime
                       <= Max(Stations(s)[k].parallel_units, 0)
                            * Max(self[s].horizon_sec, 0)

(* C1 witness: a returned result of a two-machine station whose busy time    *)
(* plus downtime exceeds one horizon.                                        *)
C1_Witness ==
    \E s \in Running :
        \E k \in 1 .. Len(mc[s].results) :
            /\ ValidLine(s)
            /\ Stations(s)[k].parallel_units = 2
            /\ mc[s].results[k].total_downtime > 0
            /\ mc[s].results[k].total_busy_time
                 + mc[s].results[k].total_downtime > self[s].horizon_sec

(* C2: for a non-empty line, once run_monte_carlo(runs) has returned,        *)
(* line_throughputs has exactly runs entries, one per trial in order, entry  *)
(* i being the least total_units of trial i's results, one per station.      *)
(* Stated for lines of valid stations and a valid horizon, where only the    *)
(* trial count is left to decide it.                                         *)
ThroughputPerTrial(s) ==
    /\ Len(hist[s].trials) = Len(out[s].line_throughputs)
    /\ \A i \in 1 .. Len(hist[s].trials) :
         /\ Len(hist[s].trials[i]) = Len(Stations(s))
         /\ \E k \in StationIds(s) :
              /\ AtMinimum(hist[s].trials[i], k)
              /\ out[s].line_throughputs[i] = hist[s].trials[i][k].total_units

C2_ThroughputPerTrial ==
    \A s \in Running :
        (Returned(s) /\ Len(Stations(s)) > 0 /\ ValidLine(s) /\ ValidHorizon(s))
        => /\ Len(out[s].line_throughputs) = mc[s].runs
           /\ ThroughputPerTrial(s)

(* What the code does keep, for every line and trial count: one entry per    *)
(* trial run, max(runs, 0) of them, each the least total_units of its trial. *)
C2_ThroughputPerTrialRun ==
    \A s \in Running :
        (Returned(s) /\ Len(Stations(s)) > 0)
        => /\ Len(out[s].line_throughputs) = Max(mc[s].runs, 0)
           /\ ThroughputPerTrial(s)

(* C3: with unique station names, each station's bottleneck count is the     *)
(* number of trials in which its total_units was the trial's minimum (ties   *)
(* credit every tied station); a station strictly below all others in every  *)
(* trial of a returned run that made at least one trial has count = runs     *)
(* and the others 0.                                                         *)
C3_BottleneckCounts ==
    \A s \in Running :
        (UniqueNames(s) /\ pc[s] # "call")
        => \A k \in StationIds(s) :
             /\ mc[s].bottleneck_counts[Stations(s)[k].name]
                  = Cardinality({i \in 1 .. Len(hist[s].trials) :
                                   AtMinimum(hist[s].trials[i], k)})
             /\ (/\ Returned(s)
                 /\ hist[s].trials # <<>>
                 /\ \A i \in 1 .. Len(hist[s].trials) :
                        StrictMinimum(hist[s].trials[i], k))
                => /\ out[s].bottleneck_counts[Stations(s)[k].name]
                        = mc[s].runs
                   /\ \A j \in StationIds(s) \ {k} :
                        out[s].bottleneck_counts[Stations(s)[j].name] = 0

(* C3 witness: a returned run of a two-station line with unique names in     *)
(* which one trial was a tie (both credited) and another was not.            *)
C3_Witness ==
    \E s \in Running :
        /\ Returned(s)
        /\ UniqueNames(s)
        /\ Len(Stations(s)) = 2
        /\ \E i \in 1 .. Len(hist[s].trials) :
             AtMinimum(hist[s].trials[i], 1) /\ AtMinimum(hist[s].trials[i], 2)
        /\ \E i \in 1 .. Len(hist[s].trials) :
             StrictMinimum(hist[s].trials[i], 1)
             \/ StrictMinimum(hist[s].trials[i], 2)

(* C4: two independent executions with the same stations, horizon, trial     *)
(* count and seed return identical summaries.                                *)
SameInputs(a, b) ==
    /\ self[a] = self[b]
    /\ mc[a].runs = mc[b].runs
    /\ mc[a].seed = mc[b].seed

C4_Determinism ==
    \A a, b \in Running :
        (Returned(a) /\ Returned(b) /\ SameInputs(a, b)) => out[a] = out[b]

(* C4 witness: two distinct executions on the same inputs have both returned *)
(* after drawing from their generators.                                      *)
C4_Witness ==
    \E a, b \in Running :
        /\ a # b
        /\ Returned(a) /\ Returned(b) /\ SameInputs(a, b)
        /\ out[a].line_throughputs # <<>>
        /\ hist[a].draws # <<>>

(* C5: run_monte_carlo on a line with no stations never returns a summary    *)
(* and completes no trial, whatever the trial count >= 0 (stated for a       *)
(* valid horizon).                                                           *)
C5_EmptyLineRejected ==
    \A s \in Running :
        (Len(Stations(s)) = 0 /\ mc[s].runs >= 0 /\ ValidHorizon(s))
        => (~Returned(s) /\ hist[s].trials = <<>>)

(* C6: a line with an invalid station (mtbf_hours <= 0, mttr_hours <= 0,     *)
(* mean_cycle_time_sec < 0 or parallel_units < 1) is rejected before the     *)
(* simulation: no draw, no trial, no station simulated, no summary (stated   *)
(* for a valid horizon and a trial count >= 1).                              *)
C6_InvalidStationRejected ==
    \A s \in Running :
        (~ValidLine(s) /\ mc[s].runs >= 1 /\ ValidHorizon(s))
        => /\ hist[s].draws = <<>>
           /\ hist[s].calls = 0
           /\ hist[s].trials = <<>>
           /\ ~Returned(s)

(* C7: run_monte_carlo(runs = 0) on a valid non-empty line returns an empty  *)
(* line_throughputs and all-zero counts and totals, having drawn nothing     *)
(* and never called _simulate_station_units.                                 *)
C7_ZeroTrials ==
    \A s \in Running :
        (Returned(s) /\ mc[s].runs = 0 /\ ValidLine(s) /\ Len(Stations(s)) > 0)
        => /\ out[s].line_throughputs = <<>>
           /\ \A k \in StationIds(s) :
                /\ out[s].bottleneck_counts[Stations(s)[k].name] = 0
                /\ out[s].station_busy_time[Stations(s)[k].name] = 0
                /\ out[s].station_downtime[Stations(s)[k].name] = 0
                /\ out[s].station_units[Stations(s)[k].name] = 0
           /\ rng[RngOf(s)].pos = 0
           /\ hist[s].draws = <<>>
           /\ hist[s].calls = 0

(* C7 witness: a call with runs = 0 on a valid two-station line, positive    *)
(* horizon, has returned.                                                    *)
C7_Witness ==
    \E s \in Running :
        /\ Returned(s)
        /\ mc[s].runs = 0
        /\ ValidLine(s)
        /\ Len(Stations(s)) = 2
        /\ self[s].horizon_sec > 0

(* C8: a negative trial count never returns a summary, and a trial count of  *)
(* zero never raises (stated for non-empty lines of valid stations and a     *)
(* valid horizon).                                                           *)
C8_NegativeRunsRejected ==
    \A s \in Running :
        (Len(Stations(s)) > 0 /\ ValidLine(s) /\ ValidHorizon(s))
        => /\ mc[s].runs < 0 => ~Returned(s)
           /\ mc[s].runs = 0 => pc[s] # "raised"

(* C9: with a negative horizon no station is simulated and no summary is     *)
(* returned (stated for non-empty lines of valid stations and a trial count  *)
(* >= 1).                                                                    *)
C9_NegativeHorizonRejected ==
    \A s \in Running :
        (/\ self[s].horizon_hours < 0
         /\ Len(Stations(s)) > 0 /\ ValidLine(s) /\ mc[s].runs >= 1)
        => (hist[s].calls = 0 /\ ~Returned(s))

(* C10: a station with mean_cycle_time_sec = 0 has 0 busy time and 0 units   *)
(* in every result while its clock advances by every up and repair interval  *)
(* and its downtime collects the repair intervals; the cumulative            *)
(* station_units and station_busy_time under its name stay 0.                *)
ZeroCyclePerTrial(s, k) ==
    /\ \A i \in 1 .. Len(ResultLists(s)) :
         k <= Len(ResultLists(s)[i])
         => /\ ResultLists(s)[i][k].total_busy_time = 0
            /\ ResultLists(s)[i][k].total_units = 0
    /\ (InMachine(s) /\ mc[s].cfg_i = k)
       => /\ st[s].busy = 0 /\ st[s].units = 0
          /\ st[s].total_busy = 0 /\ st[s].total_units = 0
          /\ st[s].down = SumUsed(MachineDraws(s, "down"))
          /\ st[s].t = SumUsed(MachineDraws(s, "up")) + st[s].down

ZeroCycleCumulative(s, k) ==
    pc[s] # "call"
    => /\ mc[s].station_units[Stations(s)[k].name] = 0
       /\ mc[s].station_busy_time[Stations(s)[k].name] = 0

C10_ZeroCycleTime ==
    \A s \in Running :
        \A k \in StationIds(s) :
            Stations(s)[k].mean_cycle_time_sec = 0
            => ZeroCyclePerTrial(s, k) /\ ZeroCycleCumulative(s, k)

(* C10 as amended: the same, the cumulative totals staying 0 provided no     *)
(* other station of the line shares the station's name.                      *)
NameIsOwn(s, k) ==
    \A j \in StationIds(s) : Stations(s)[j].name = Stations(s)[k].name => j = k

C10_ZeroCycleTimeOwnName ==
    \A s \in Running :
        \A k \in StationIds(s) :
            Stations(s)[k].mean_cycle_time_sec = 0
            => /\ ZeroCyclePerTrial(s, k)
               /\ NameIsOwn(s, k) => ZeroCycleCumulative(s, k)

(* C10 witness: a returned run in which a zero-cycle station went through    *)
(* up and repair intervals: downtime under its name, no units, no busy time. *)
C10_Witness ==
    \E s \in Running :
        \E k \in StationIds(s) :
            /\ Returned(s)
            /\ Stations(s)[k].mean_cycle_time_sec = 0
            /\ NameIsOwn(s, k)
            /\ hist[s].trials # <<>>
            /\ out[s].station_downtime[Stations(s)[k].name] > 0
            /\ out[s].station_units[Stations(s)[k].name] = 0
            /\ out[s].station_busy_time[Stations(s)[k].name] = 0

----------------------------------------------------------------------------
(* C11: with a horizon of 0 every result of _simulate_station_units has busy *)
(* time, downtime and units all zero, whatever the station, the machine loop *)
(* body never runs (no interval is ever entered) and the generator stays     *)
(* unused.                                                                   *)
C11_ZeroHorizon ==
    \A s \in Running :
        self[s].horizon_sec = 0
        => /\ \A i \in 1 .. Len(ResultLists(s)) :
                \A k \in 1 .. Len(ResultLists(s)[i]) :
                    /\ ResultLists(s)[i][k].total_busy_time = 0
                    /\ ResultLists(s)[i][k].total_downtime = 0
                    /\ ResultLists(s)[i][k].total_units = 0
           /\ pc[s] # "repair"
           /\ hist[s].draws = <<>>
           /\ pc[s] # "call" => rng[RngOf(s)].pos = 0

(* C11 witness: with horizon 0, a run of two trials over a two-machine       *)
(* station has returned, every station call having gone through its machine  *)
(* loop.                                                                     *)
C11_Witness ==
    \E s \in Running :
        /\ self[s].horizon_sec = 0
        /\ Returned(s)
        /\ Len(hist[s].trials) = 2
        /\ \E k \in StationIds(s) : Stations(s)[k].parallel_units = 2
        /\ hist[s].calls = 2 * Len(Stations(s))

----------------------------------------------------------------------------
(* C13: per machine the draws alternate up, down, up, ... from an up draw at *)
(* t = 0, each draw starting where the previous interval ended; a repair is  *)
(* drawn only with the clock strictly below the horizon; an up interval that *)
(* brings the clock to the horizon is the machine's last draw, and the       *)
(* machine's downtime is the sum of its repair intervals only.               *)
SameMachine(a, b) == a.run = b.run /\ a.cfg = b.cfg /\ a.unit = b.unit

ReachesHorizon(s, d) == d.t + d.used >= self[s].horizon_sec

DrawsAlternate(s) ==
    LET draws == hist[s].draws
    IN  \A i \in 1 .. Len(draws) :
            /\ IF i = 1 \/ ~SameMachine(draws[i - 1], draws[i])
               THEN draws[i].kind = "up" /\ draws[i].t = 0
               ELSE /\ draws[i].kind # draws[i - 1].kind
                    /\ draws[i].t = draws[i - 1].t + draws[i - 1].used
            /\ draws[i].kind = "down" => draws[i].t < self[s].horizon_sec
            /\ (/\ draws[i].kind = "up"
                /\ ReachesHorizon(s, draws[i])
                /\ i < Len(draws))
               => ~SameMachine(draws[i], draws[i + 1])

C13_UpDownAlternate ==
    \A s \in Running :
        /\ DrawsAlternate(s)
        /\ pc[s] = "repair" => st[s].t < self[s].horizon_sec
        /\ InMachine(s) => st[s].down = SumUsed(MachineDraws(s, "down"))

(* C13 witness: a machine drew up, down, up, the second up interval reaching *)
(* the horizon, and the next draw belongs to another machine.                *)
C13_Witness ==
    \E s \in Running :
        \E i \in 1 .. Len(hist[s].draws) - 3 :
            LET d == hist[s].draws
            IN  /\ d[i].kind = "up" /\ d[i].t = 0
                /\ d[i + 1].kind = "down" /\ SameMachine(d[i], d[i + 1])
                /\ d[i + 2].kind = "up" /\ SameMachine(d[i], d[i + 2])
                /\ ReachesHorizon(s, d[i + 2])
                /\ ~SameMachine(d[i], d[i + 3])

----------------------------------------------------------------------------
(* C14: within one run_monte_carlo call the one generator seeded by the call *)
(* is consumed in sequence and never reset: the i-th draw of the call is     *)
(* sample i-1 of the seed's stream, draws come trial by trial, within a      *)
(* trial station by station, within a station machine by machine, so the     *)
(* first draw of a trial is the sample right after the last draw of the      *)
(* trial before.                                                             *)
DrawOrder(a, b) ==
    \/ a.run < b.run
    \/ a.run = b.run /\ a.cfg < b.cfg
    \/ a.run = b.run /\ a.cfg = b.cfg /\ a.unit <= b.unit

DrawScale(s, d) ==
    ScaleSec(IF d.kind = "up" THEN Stations(s)[d.cfg].mtbf_hours
                              ELSE Stations(s)[d.cfg].mttr_hours)

C14_SequentialDraws ==
    \A s \in Running :
        pc[s] # "call"
        => /\ rng[RngOf(s)].seed = mc[s].seed
           /\ rng[RngOf(s)].pos = Len(hist[s].draws)
           /\ \A i \in 1 .. Len(hist[s].draws) :
                LET d == hist[s].draws[i]
                IN  /\ d.pos = i - 1
                    /\ d.value = Exponential([seed |-> mc[s].seed, pos |-> i - 1],
                                              DrawScale(s, d))
                    /\ i > 1 => DrawOrder(hist[s].draws[i - 1], d)

(* C14 witness: a returned run of two trials over two stations, the first    *)
(* draw of the second trial following the last draw of the first.            *)
C14_Witness ==
    \E s \in Running :
        /\ Returned(s)
        /\ Len(Stations(s)) = 2
        /\ \E i \in 1 .. Len(hist[s].draws) - 1 :
             /\ hist[s].draws[i].run = 0
             /\ hist[s].draws[i + 1].run = 1
             /\ hist[s].draws[i].cfg = 2
             /\ hist[s].draws[i + 1].cfg = 1
             /\ hist[s].draws[i + 1].pos = hist[s].draws[i].pos + 1

----------------------------------------------------------------------------
(* C15: with unique station names, each station's cumulative busy time,      *)
(* downtime and units are the sums of its own results over the trials made   *)
(* (after k completed trials, over those k trials; within a trial, also over *)
(* the results already folded), so folding one station's result leaves every *)
(* other station's totals as they were.                                      *)
FoldedLists(s) ==
    IF pc[s] \in {"for_runs", "done"}
    THEN hist[s].trials
    ELSE hist[s].trials \o <<mc[s].results>>

RECURSIVE SumBusy(_, _)
SumBusy(lists, k) ==
    IF lists = <<>> THEN 0
    ELSE (IF k <= Len(Head(lists)) THEN Head(lists)[k].total_busy_time ELSE 0)
         + SumBusy(Tail(lists), k)

RECURSIVE SumDown(_, _)
SumDown(lists, k) ==
    IF lists = <<>> THEN 0
    ELSE (IF k <= Len(Head(lists)) THEN Head(lists)[k].total_downtime ELSE 0)
         + SumDown(Tail(lists), k)

RECURSIVE SumUnits(_, _)
SumUnits(lists, k) ==
    IF lists = <<>> THEN 0
    ELSE (IF k <= Len(Head(lists)) THEN Head(lists)[k].total_units ELSE 0)
         + SumUnits(Tail(lists), k)

C15_TotalsAreOwnSums ==
    \A s \in Running :
        (UniqueNames(s) /\ pc[s] # "call")
        => /\ pc[s] \in {"for_runs", "done"} => Len(hist[s].trials) = mc[s].run_i
           /\ \A k \in StationIds(s) :
                LET name == Stations(s)[k].name
                IN  /\ mc[s].station_busy_time[name] = SumBusy(FoldedLists(s), k)
                    /\ mc[s].station_downtime[name] = SumDown(FoldedLists(s), k)
                    /\ mc[s].station_units[name] = SumUnits(FoldedLists(s), k)

(* C15 witness: after two trials of a two-station line with unique names the *)
(* two stations hold different non-zero unit totals and one has downtime.    *)
C15_Witness ==
    \E s \in Running :
        /\ Returned(s)
        /\ UniqueNames(s)
        /\ Len(Stations(s)) = 2
        /\ Len(hist[s].trials) = 2
        /\ out[s].station_units[Stations(s)[1].name] > 0
        /\ out[s].station_units[Stations(s)[2].name] > 0
        /\ out[s].station_units[Stations(s)[1].name]
             # out[s].station_units[Stations(s)[2].name]
        /\ out[s].station_downtime[Stations(s)[1].name] > 0

----------------------------------------------------------------------------
(* C16: two executions own one generator each, and a step of one leaves the  *)
(* other's object, locals, generator, result and history untouched, in every *)
(* interleaving; each execution's draws are therefore the samples of its own *)
(* seed, in order, as when it runs alone.  The steps inside                  *)
(* _simulate_station_units change neither the simulator object (station      *)
(* configs, horizon) nor the running totals of run_monte_carlo.              *)
Stepped(a) == a \in DOMAIN pc /\ pc[a]' # pc[a]

Untouched(b) ==
    /\ self[b]' = self[b]
    /\ mc[b]' = mc[b]
    /\ st[b]' = st[b]
    /\ rng[RngOf(b)]' = rng[RngOf(b)]
    /\ pc[b]' = pc[b]
    /\ out[b]' = out[b]
    /\ hist[b]' = hist[b]

InStationCall(a) == pc[a] \in {"for_units", "while", "repair", "accumulate"}

DrawsOwnStream(a) ==
    \A i \in 1 .. Len(hist[a].draws) :
        hist[a].draws[i].value
          = Exponential([seed |-> mc[a].seed, pos |-> i - 1],
                        DrawScale(a, hist[a].draws[i]))

StepIsOwn(a) ==
    /\ \A b \in DOMAIN pc \ {a} : RngOf(a) # RngOf(b) /\ Untouched(b)
    /\ self[a]' = self[a]
    /\ (InStationCall(a) /\ pc[a]' \in {"for_units", "while", "repair",
                                         "accumulate", "raised"})
       => mc[a]' = mc[a]
    /\ DrawsOwnStream(a)'

C16_OwnRandomSource == [][\A a \in Sims : Stepped(a) => StepIsOwn(a)]_vars

(* C16 witness: two executions on different inputs are both in the middle of *)
(* a machine's loop, each about to draw a repair interval.                   *)
C16_Witness ==
    /\ DOMAIN pc = {1, 2}
    /\ pc[1] = "repair" /\ pc[2] = "repair"
    /\ self[1] # self[2]
    /\ mc[1].seed # mc[2].seed
    /\ hist[1].draws # <<>> /\ hist[2].draws # <<>>

----------------------------------------------------------------------------
(* C17: for a station whose draws are strictly positive (mtbf_hours > 0 and  *)
(* mttr_hours > 0) and a horizon > 0, the clock of every machine stays in    *)
(* 0 .. horizon_sec, the machine's loop ends, and at its end the clock is    *)
(* the horizon exactly, the machine's up intervals and its downtime adding   *)
(* up to it.  With mtbf_hours = mttr_hours = 0 every draw is 0: the clock    *)
(* stays at 0 and the loop never ends.                                       *)
PositiveDraws(s) ==
    /\ self[s].horizon_sec > 0
    /\ Cfg(s).mtbf_hours > 0
    /\ Cfg(s).mttr_hours > 0

ZeroDraws(s) ==
    /\ self[s].horizon_sec > 0
    /\ Cfg(s).mtbf_hours = 0
    /\ Cfg(s).mttr_hours = 0

ClockWithinHorizon ==
    \A s \in Running :
        InMachine(s)
        => /\ PositiveDraws(s)
              => /\ 0 <= st[s].t /\ st[s].t <= self[s].horizon_sec
                 /\ pc[s] = "accumulate"
                    => /\ st[s].t = self[s].horizon_sec
                       /\ SumUsed(MachineDraws(s, "up")) + st[s].down
                            = self[s].horizon_sec
           /\ ZeroDraws(s) => (st[s].t = 0 /\ pc[s] # "accumulate")

C17_LoopTerminatesAtHorizon ==
    /\ []ClockWithinHorizon
    /\ \A s \in Sims :
         (At(s, "while") /\ PositiveDraws(s)) ~> At(s, "accumulate")

(* C17 witness: a machine of a valid station has left its loop after an up,  *)
(* a repair and a further up interval, its clock at the horizon.             *)
C17_Witness ==
    \E s \in Running :
        /\ pc[s] = "accumulate"
        /\ PositiveDraws(s)
        /\ Len(MachineDraws(s, "up")) >= 2
        /\ Len(MachineDraws(s, "down")) >= 1
        /\ st[s].t = self[s].horizon_sec

(* C17 witness of the second half: a machine with mtbf_hours = mttr_hours = 0 *)
(* has drawn up and repair intervals many times over with its clock at 0.    *)
ZeroDrawsLoopOn ==
    \E s \in Running :
        /\ InMachine(s)
        /\ ZeroDraws(s)
        /\ Len(MachineDraws(s, "up")) >= 5
        /\ st[s].t = 0

----------------------------------------------------------------------------
(* C18: every station result has total_busy_time = total_units *             *)
(* mean_cycle_time_sec; a machine's units are the sum over its up intervals  *)
(* of floor(up interval / cycle time), each interval rounded down by itself  *)
(* (0 when the cycle time is not positive), its busy time is its units times *)
(* the cycle time and never exceeds the sum of its up intervals.             *)
RECURSIVE FloorUnits(_, _)
FloorUnits(draws, cycle) ==
    IF draws = <<>> THEN 0
    ELSE (IF cycle > 0 THEN Head(draws).used \div cycle ELSE 0)
         + FloorUnits(Tail(draws), cycle)

C18_BusyIsUnitsTimesCycle ==
    \A s \in Running :
        /\ \A i \in 1 .. Len(ResultLists(s)) :
               \A k \in 1 .. Len(ResultLists(s)[i]) :
                   ResultLists(s)[i][k].total_busy_time
                     = ResultLists(s)[i][k].total_units
                         * Stations(s)[k].mean_cycle_time_sec
        /\ InMachine(s)
           => /\ st[s].units
                   = FloorUnits(MachineDraws(s, "up"),
                                Cfg(s).mean_cycle_time_sec)
              /\ st[s].busy = st[s].units * Cfg(s).mean_cycle_time_sec
              /\ st[s].busy <= SumUsed(MachineDraws(s, "up"))

(* C18 witness: a machine has left its loop after two up intervals that      *)
(* each left a remainder; together the remainders would have made a further  *)
(* unit, which the machine does not have.                                    *)
C18_Witness ==
    \E s \in Running :
        /\ pc[s] = "accumulate"
        /\ Cfg(s).mean_cycle_time_sec > 0
        /\ Len(MachineDraws(s, "up")) >= 2
        /\ \A i \in 1 .. Len(MachineDraws(s, "up")) :
               MachineDraws(s, "up")[i].used % Cfg(s).mean_cycle_time_sec # 0
        /\ st[s].units
             < SumUsed(MachineDraws(s, "up")) \div Cfg(s).mean_cycle_time_sec

----------------------------------------------------------------------------
(* C19: for every station with mean_cycle_time_sec > 0 and every trial,      *)
(* 0 <= total_units <= parallel_units * floor(horizon_sec / cycle time), and *)
(* every line throughput value is at most the least such bound over the      *)
(* stations of the line.  It fails for a negative horizon, which the code    *)
(* does not reject: the bound is negative and the units are 0.               *)
Capacity(s, k) ==
    Stations(s)[k].parallel_units
      * (self[s].horizon_sec \div Stations(s)[k].mean_cycle_time_sec)

UnitsWithinCapacity(s) ==
    /\ \A i \in 1 .. Len(ResultLists(s)) :
           \A k \in 1 .. Len(ResultLists(s)[i]) :
               Stations(s)[k].mean_cycle_time_sec > 0
               => /\ 0 <= ResultLists(s)[i][k].total_units
                  /\ ResultLists(s)[i][k].total_units <= Capacity(s, k)
    /\ \A i \in 1 .. Len(mc[s].line_throughputs) :
           \A k \in StationIds(s) :
               Stations(s)[k].mean_cycle_time_sec > 0
               => mc[s].line_throughputs[i] <= Capacity(s, k)

C19_UnitsWithinCapacity == \A s \in Running : UnitsWithinCapacity(s)

(* the same bound for the horizons the specification admits *)
C19_UnitsWithinCapacityValidHorizon ==
    \A s \in Running : ValidHorizon(s) => UnitsWithinCapacity(s)

(* a station of two machines has produced exactly its bound in a trial *)
C19_AtCapacity ==
    \E s \in Running :
        \E i \in 1 .. Len(hist[s].trials) :
            \E k \in StationIds(s) :
                /\ Stations(s)[k].mean_cycle_time_sec > 0
                /\ Stations(s)[k].parallel_units = 2
                /\ hist[s].trials[i][k].total_units = Capacity(s, k)
                /\ Capacity(s, k) > 0

----------------------------------------------------------------------------
(* C20: after k completed trials of a non-empty line every entry of          *)
(* bottleneck_counts is in 0 .. k, every trial credited at least one         *)
(* station, and the counts add up to at least k and at most k times the      *)
(* number of stations (stated for valid stations and a horizon > 0).  The   *)
(* entry bound fails when two stations share a name and are both at the      *)
(* minimum of a trial.                                                       *)
RECURSIVE SumOver(_, _)
SumOver(f, S) ==
    IF S = {} THEN 0
    ELSE LET n == CHOOSE x \in S : TRUE
         IN  f[n] + SumOver(f, S \ {n})

(* the stations of the result list rs whose units are the least *)
Credited(rs) == {k \in 1 .. Len(rs) : AtMinimum(rs, k)}

RECURSIVE SumCredits(_)
SumCredits(trials) ==
    IF trials = <<>> THEN 0
    ELSE Cardinality(Credited(Head(trials))) + SumCredits(Tail(trials))

(* how many stations of the line carry the name n *)
NameShare(s, n) == Cardinality({k \in StationIds(s) : Stations(s)[k].name = n})

CountsAddUp(s) ==
    LET k == Len(hist[s].trials)
        counts == mc[s].bottleneck_counts
    IN  /\ \A i \in 1 .. k : Credited(hist[s].trials[i]) # {}
        /\ SumOver(counts, DOMAIN counts) = SumCredits(hist[s].trials)
        /\ SumOver(counts, DOMAIN counts) >= k
        /\ SumOver(counts, DOMAIN counts) <= k * Len(Stations(s))

C20_BottleneckCountBounds ==
    \A s \in Running :
        (Len(Stations(s)) >= 1 /\ ValidLine(s) /\ self[s].horizon_sec > 0)
        => /\ \A n \in DOMAIN mc[s].bottleneck_counts :
                /\ 0 <= mc[s].bottleneck_counts[n]
                /\ mc[s].bottleneck_counts[n] <= Len(hist[s].trials)
           /\ CountsAddUp(s)

(* C20 as it holds: an entry is at most k times the number of stations that  *)
(* carry its name, hence at most k in a line of unique names.                *)
C20_BottleneckCountBoundsByName ==
    \A s \in Running :
        Len(Stations(s)) >= 1
        => /\ \A n \in DOMAIN mc[s].bottleneck_counts :
                /\ 0 <= mc[s].bottleneck_counts[n]
                /\ mc[s].bottleneck_counts[n]
                     <= Len(hist[s].trials) * NameShare(s, n)
                /\ UniqueNames(s)
                   => mc[s].bottleneck_counts[n] <= Len(hist[s].trials)
           /\ CountsAddUp(s)

(* C20 witness: a line of two stations with unique names has returned after  *)
(* two trials, one station credited in both of them and the counts adding up *)
(* to more than the number of trials (a trial had two stations at the        *)
(* minimum).                                                                 *)
C20_Witness ==
    \E s \in Running :
        /\ Returned(s)
        /\ UniqueNames(s)
        /\ Len(Stations(s)) = 2
        /\ Len(hist[s].trials) = 2
        /\ \E n \in DOMAIN out[s].bottleneck_counts :
               out[s].bottleneck_counts[n] = 2
        /\ SumOver(out[s].bottleneck_counts, DOMAIN out[s].bottleneck_counts)
             > 2

----------------------------------------------------------------------------
(* The bound MaxDraws stops only a machine that never advances its clock     *)
(* (mtbf_hours = mttr_hours = 0): every other machine ends before it.        *)
DrawsWithinBound ==
    \A s \in Running :
        (InMachine(s) /\ DrawsOfMachine(s) >= MaxDraws)
        => (Cfg(s).mtbf_hours = 0 /\ Cfg(s).mttr_hours = 0)

====
